---- MODULE Spec2Model ----
(***************************************************************************)
(* Guillotine 2D bin packing engine (greedypacker/guillotine.py).          *)
(*                                                                         *)
(* The state is one Guillotine instance: its construction parameters, its  *)
(* free-rectangle list and its placed-item list, plus a record of the last *)
(* insert call (argument, outcome, chosen rectangle, free list before the  *)
(* merge pass) so that the effect of a call can be stated, and what        *)
(* bin_stats returned when it was the operation just performed.            *)
(*                                                                         *)
(* The variable manager is one BinManager (binpack/binmanager.py), which   *)
(* builds engines of its own; the specifications of a single engine leave  *)
(* it unconstructed.                                                       *)
(***************************************************************************)
EXTENDS Integers, Sequences, FiniteSets, TLC

\* Bounds of the model.
BinW == 3
BinH == 2
MaxDim == 2
MaxNegative == 1
MaxItems == 2
MaxItemsAny == 2
DeepBinW == 6
DeepBinH == 7
MaxItemsDeep == 8
MaxManagerItems == 2

VARIABLES x, y, rotation, rMerge, split_heuristic, freerects, items, call, stats,
          manager

vars == <<x, y, rotation, rMerge, split_heuristic, freerects, items, call, stats,
          manager>>

\* The seven heuristic names insert dispatches on, and one it does not know.
Heuristics == {"first_fit", "best_width_fit", "best_height_fit", "best_area_fit",
               "worst_width_fit", "worst_height_fit", "worst_area_fit"}
GenericHeuristics == Heuristics \ {"first_fit"}
UnknownHeuristic == "next_fit"
HeuristicNames == Heuristics \cup {UnknownHeuristic}

SplitPolicies == {"default", "SplitShorterLeftoverAxis", "SplitLongerLeftoverAxis",
                  "SplitMinimizeArea", "SplitMaximizeArea",
                  "SplitShorterAxis", "SplitLongerAxis"}

----------------------------------------------------------------------------
\* Values

FreeRectangle(w, h, px, py) == [width |-> w, height |-> h, x |-> px, y |-> py]

area(r) == r.width * r.height

\* An Optional[FreeRectangle] is a sequence of length 0 (None) or 1.
None == <<>>
Some(r) == <<r>>

\* A position that has not been assigned yet.
Unset == <<>>

\* A fresh item as the caller hands it to insert.
Item(w, h) == [width |-> w, height |-> h, CornerPoint |-> Unset, rotated |-> FALSE]

\* Item.rotate: swap the dimensions and flip the flag.
rotate(item) == [item EXCEPT !.width = item.height,
                             !.height = item.width,
                             !.rotated = ~item.rotated]

----------------------------------------------------------------------------
\* Python list primitives

\* x in list
Contains(s, e) == \E i \in 1..Len(s) : s[i] = e

\* index of the first element equal to e (list.index)
FirstIndex(s, e) == CHOOSE i \in 1..Len(s) : s[i] = e /\ \A j \in 1..(i-1) : s[j] # e

\* list.remove(e) when e is present: drops the first element equal to e
Remove(s, e) ==
    LET k == FirstIndex(s, e)
    IN  SubSeq(s, 1, k - 1) \o SubSeq(s, k + 1, Len(s))

\* tuple order of two FreeRectangles: (width, height, x, y) lexicographic
TupleLess(a, b) ==
    \/ a.width < b.width
    \/ a.width = b.width /\ a.height < b.height
    \/ a.width = b.width /\ a.height = b.height /\ a.x < b.x
    \/ a.width = b.width /\ a.height = b.height /\ a.x = b.x /\ a.y < b.y

----------------------------------------------------------------------------
\* Guillotine helpers

\* _fitted_rects: the free rectangles the item fits, in list order
_fitted_rects(fr, item, rot) ==
    LET width == IF ~rot THEN item.width ELSE item.height
        height == IF ~rot THEN item.height ELSE item.width
    IN  SelectSeq(fr, LAMBDA rect : rect.width >= width /\ rect.height >= height)

\* _split_along_axis with the two axes exchanged
_split_along_axis_AxesSwapped(freeRect, item, split) ==
    LET top_h == freeRect.height - item.height
        right_w == freeRect.width - item.width
        top_w == IF split THEN item.width ELSE freeRect.width
        right_h == IF split THEN freeRect.height ELSE item.height
        right == IF right_w > 0 /\ right_h > 0
                 THEN <<FreeRectangle(right_w, right_h, freeRect.x + item.width, freeRect.y)>>
                 ELSE <<>>
        top == IF top_w > 0 /\ top_h > 0
               THEN <<FreeRectangle(top_w, top_h, freeRect.x, freeRect.y + item.height)>>
               ELSE <<>>
    IN  right \o top

\* _split_along_axis keeping the pieces that have a zero dimension
_split_along_axis_KeepEmpty(freeRect, item, split) ==
    LET top_h == freeRect.height - item.height
        right_w == freeRect.width - item.width
        top_w == IF split THEN freeRect.width ELSE item.width
        right_h == IF split THEN item.height ELSE freeRect.height
        right == IF right_w >= 0 /\ right_h >= 0
                 THEN <<FreeRectangle(right_w, right_h, freeRect.x + item.width, freeRect.y)>>
                 ELSE <<>>
        top == IF top_w >= 0 /\ top_h >= 0
               THEN <<FreeRectangle(top_w, top_h, freeRect.x, freeRect.y + item.height)>>
               ELSE <<>>
    IN  right \o top

\* _split_along_axis: the right and top pieces, each kept only if non-empty
_split_along_axis(freeRect, item, split) ==
    LET top_x == freeRect.x
        top_y == freeRect.y + item.height
        top_h == freeRect.height - item.height
        right_x == freeRect.x + item.width
        right_y == freeRect.y
        right_w == freeRect.width - item.width
        top_w == IF split THEN freeRect.width ELSE item.width
        right_h == IF split THEN item.height ELSE freeRect.height
        right == IF right_w > 0 /\ right_h > 0
                 THEN <<FreeRectangle(right_w, right_h, right_x, right_y)>>
                 ELSE <<>>
        top == IF top_w > 0 /\ top_h > 0
               THEN <<FreeRectangle(top_w, top_h, top_x, top_y)>>
               ELSE <<>>
    IN  right \o top

\* the axis chosen by _split_free_rect: TRUE is a horizontal split
SplitAxis(policy, item, freeRect) ==
    LET w == freeRect.width - item.width
        h == freeRect.height - item.height
    IN  CASE policy = "SplitShorterLeftoverAxis" -> (w <= h)
          [] policy = "SplitLongerLeftoverAxis" -> (w > h)
          [] policy = "SplitMinimizeArea" -> (item.width * h > w * item.height)
          [] policy = "SplitMaximizeArea" -> (item.width * h <= w * item.height)
          [] policy = "SplitShorterAxis" -> (freeRect.width <= freeRect.height)
          [] policy = "SplitLongerAxis" -> (freeRect.width > freeRect.height)
          [] OTHER -> TRUE

_split_free_rect(policy, item, freeRect) ==
    _split_along_axis(freeRect, item, SplitAxis(policy, item, freeRect))

\* the field a heuristic compares
Field(r, field) ==
    CASE field = "width" -> r.width
      [] field = "height" -> r.height
      [] field = "area" -> area(r)

\* operator.lt and operator.gt exchanged
Op_Exchanged(op, a, b) == IF op = "lt" THEN a > b ELSE a < b

\* operator.lt / operator.gt
Op(op, a, b) == IF op = "lt" THEN a < b ELSE a > b

\* functools.reduce(compare, fitted_rects) with
\* compare = lambda a, b: a if op(a.field, b.field) else b
RECURSIVE Reduce(_, _, _, _, _)
Reduce(fitted, op, field, i, acc) ==
    IF i > Len(fitted) THEN acc
    ELSE Reduce(fitted, op, field, i + 1,
                IF Op(op, Field(acc, field), Field(fitted[i], field))
                THEN acc ELSE fitted[i])

_rectangle_reduce(fitted_rects, op, field) ==
    IF fitted_rects # <<>>
    THEN Some(Reduce(fitted_rects, op, field, 2, fitted_rects[1]))
    ELSE None

\* _compare_two_freerects: min(A, B) of two optional rectangles
_compare_two_freerects(A, B) ==
    IF A = None /\ B = None THEN None
    ELSE IF A # None /\ B # None
         THEN (IF TupleLess(B[1], A[1]) THEN B ELSE A)
    ELSE IF A # None THEN A
    ELSE B

----------------------------------------------------------------------------
\* Placement

\* a placement that leaves the chosen rectangle in the free list
Place_KeepChosen(fr, its, policy, item, freerect) ==
    [res |-> TRUE,
     freerects |-> fr \o _split_free_rect(policy,
                        [item EXCEPT !.CornerPoint = <<freerect.x, freerect.y>>], freerect),
     items |-> Append(its, [item EXCEPT !.CornerPoint = <<freerect.x, freerect.y>>]),
     item |-> [item EXCEPT !.CornerPoint = <<freerect.x, freerect.y>>],
     chosen |-> Some(freerect),
     split |-> SplitAxis(policy, item, freerect)]

\* commit a placement of item in freerect (the shared tail of first_fit and
\* _generic_algo): set the corner, append the item, remove the rectangle,
\* append the pieces of the split
Place(fr, its, policy, item, freerect) ==
    LET placed == [item EXCEPT !.CornerPoint = <<freerect.x, freerect.y>>]
    IN  [res |-> TRUE,
         freerects |-> Remove(fr, freerect) \o _split_free_rect(policy, placed, freerect),
         items |-> Append(its, placed),
         item |-> placed,
         chosen |-> Some(freerect),
         split |-> SplitAxis(policy, placed, freerect)]

\* a call that places nothing
NoPlace(fr, its, item) ==
    [res |-> FALSE, freerects |-> fr, items |-> its, item |-> item,
     chosen |-> None, split |-> TRUE]

\* the loop of first_fit taking the last fitting rectangle instead
FirstFitted_Last(fr, its, policy, item, fitted_rects) ==
    IF fitted_rects # <<>>
    THEN Place(fr, its, policy, item, fitted_rects[Len(fitted_rects)])
    ELSE NoPlace(fr, its, item)

\* the loop of first_fit over fitted_rects: it returns in its first round
FirstFitted(fr, its, policy, item, fitted_rects) ==
    IF fitted_rects # <<>>
    THEN Place(fr, its, policy, item, fitted_rects[1])
    ELSE NoPlace(fr, its, item)

\* the second query of first_fit, made when nothing fits unrotated and
\* rotation is enabled: the item is rotated if something fits it rotated
FirstFitRotated(fr, its, policy, item, fitted_rects) ==
    FirstFitted(fr, its, policy,
                IF fitted_rects # <<>> THEN rotate(item) ELSE item, fitted_rects)

\* first_fit: the first free rectangle that fits, rotated only when nothing
\* fits unrotated
FirstFitQuery(fr, its, rot, policy, item, fitted_rects) ==
    IF fitted_rects = <<>> /\ rot
    THEN FirstFitRotated(fr, its, policy, item, _fitted_rects(fr, item, TRUE))
    ELSE FirstFitted(fr, its, policy, item, fitted_rects)

first_fit(fr, its, rot, policy, item) ==
    FirstFitQuery(fr, its, rot, policy, item, _fitted_rects(fr, item, FALSE))

\* the end of _generic_algo: place the item in best, if there is one
GenericCommit(fr, its, policy, item, best) ==
    IF best # None
    THEN Place(fr, its, policy, item, best[1])
    ELSE NoPlace(fr, its, item)

\* the choice between the two candidates when rotation is enabled: the item
\* is rotated when best == smallest_rotated
GenericRotate(fr, its, policy, item, smallest_rotated, best) ==
    GenericCommit(fr, its, policy,
                  IF best = smallest_rotated THEN rotate(item) ELSE item, best)

GenericChoice(fr, its, rot, policy, item, smallest_rect, smallest_rotated) ==
    IF rot
    THEN GenericRotate(fr, its, policy, item, smallest_rotated,
                       _compare_two_freerects(smallest_rect, smallest_rotated))
    ELSE GenericCommit(fr, its, policy, item, smallest_rect)

\* _generic_algo splitting by the policy it is passed
_generic_algo_PassedPolicy(fr, its, rot, policy, item, field, op, passed) ==
    GenericChoice(fr, its, rot, passed, item,
                  _rectangle_reduce(_fitted_rects(fr, item, FALSE), op, field),
                  _rectangle_reduce(_fitted_rects(fr, item, TRUE), op, field))

\* _generic_algo: best/worst candidate by field, for both orientations when
\* rotation is enabled. Its split_heuristic argument (passed) is not read:
\* _split_free_rect uses self.split_heuristic (policy)
_generic_algo(fr, its, rot, policy, item, field, op, passed) ==
    GenericChoice(fr, its, rot, policy, item,
                  _rectangle_reduce(_fitted_rects(fr, item, FALSE), op, field),
                  _rectangle_reduce(_fitted_rects(fr, item, TRUE), op, field))

----------------------------------------------------------------------------
\* Rectangle merge

\* the outcome of a step of the merge pass: the free list, and whether a
\* list.remove raised ValueError
MergeOk(fr) == [fr |-> fr, fault |-> FALSE]
MergeFault(fr) == [fr |-> fr, fault |-> TRUE]

\* self.freerects.remove(match_rect); self.freerects.append(merged_rect)
RemoveMatch(fr, match_rect, merged_rect) ==
    IF ~Contains(fr, match_rect) THEN MergeFault(fr)
    ELSE MergeOk(Append(Remove(fr, match_rect), merged_rect))

\* the merge of a pair that leaves match_rect in the list
MergePair_KeepMatch(fr, freerect, match_rect, merged_rect) ==
    IF ~Contains(fr, freerect) THEN MergeFault(fr)
    ELSE MergeOk(Append(Remove(fr, freerect), merged_rect))

\* self.freerects.remove(freerect), then the two statements above
MergePair(fr, freerect, match_rect, merged_rect) ==
    IF ~Contains(fr, freerect) THEN MergeFault(fr)
    ELSE RemoveMatch(Remove(fr, freerect), match_rect, merged_rect)

\* if widths_adjacent: merge freerect with widths_adjacent[0]
MergeAbove(fr, freerect, widths_adjacent) ==
    IF widths_adjacent # <<>>
    THEN MergePair(fr, freerect, widths_adjacent[1],
                   FreeRectangle(freerect.width,
                                 freerect.height + widths_adjacent[1].height,
                                 freerect.x, freerect.y))
    ELSE MergeOk(fr)

\* if matching_widths: ...
VerticalMerge(fr, freerect) ==
    IF SelectSeq(fr, LAMBDA r : r.width = freerect.width
                          /\ r.x = freerect.x /\ r # freerect) # <<>>
    THEN MergeAbove(fr, freerect,
                    SelectSeq(fr, LAMBDA r : r.y = freerect.y + freerect.height))
    ELSE MergeOk(fr)

\* if heights_adjacent: merge freerect with heights_adjacent[0]
MergeRight(fr, freerect, heights_adjacent) ==
    IF heights_adjacent # <<>>
    THEN MergePair(fr, freerect, heights_adjacent[1],
                   FreeRectangle(freerect.width + heights_adjacent[1].width,
                                 freerect.height, freerect.x, freerect.y))
    ELSE MergeOk(fr)

\* if matching_heights: ... on the list v the vertical merge left;
\* matching_heights was computed before the vertical merge
HorizontalMerge(v, freerect, matching_heights) ==
    IF v.fault THEN v
    ELSE IF matching_heights # <<>>
         THEN MergeRight(v.fr, freerect,
                         SelectSeq(v.fr, LAMBDA r : r.x = freerect.x + freerect.width))
         ELSE v

\* the body of the loop of rectangle_merge for one freerect
MergeStep(fr, freerect) ==
    HorizontalMerge(VerticalMerge(fr, freerect), freerect,
                    SelectSeq(fr, LAMBDA r : r.height = freerect.height
                                         /\ r.y = freerect.y /\ r # freerect))

\* for freerect in self.freerects: the list iterator reads position i of the
\* list as it is now, and stops when i is past its end
RECURSIVE MergeLoop(_, _)
MergeNext(step, i) ==
    IF step.fault THEN step ELSE MergeLoop(step.fr, i + 1)

MergeLoop(fr, i) ==
    IF i > Len(fr) THEN MergeOk(fr)
    ELSE MergeNext(MergeStep(fr, fr[i]), i)

rectangle_merge(fr) == MergeLoop(fr, 1)

----------------------------------------------------------------------------
\* insert

\* the field and the comparison insert passes to _generic_algo
HeuristicField(h) ==
    CASE h \in {"best_width_fit", "worst_width_fit"} -> "width"
      [] h \in {"best_height_fit", "worst_height_fit"} -> "height"
      [] h \in {"best_area_fit", "worst_area_fit"} -> "area"

HeuristicOp(h) ==
    IF h \in {"best_width_fit", "best_height_fit", "best_area_fit"} THEN "lt" ELSE "gt"

\* the heuristic dispatch of insert; passed is insert's split_heuristic
\* argument, handed on to _generic_algo
Dispatch(fr, its, rot, policy, item, heuristic, passed) ==
    CASE heuristic = "first_fit" -> first_fit(fr, its, rot, policy, item)
      [] heuristic \in GenericHeuristics ->
            _generic_algo(fr, its, rot, policy, item,
                          HeuristicField(heuristic), HeuristicOp(heuristic), passed)
      [] OTHER -> NoPlace(fr, its, item)

\* what a call of insert did: res is "True", "False", or "ValueError" when
\* the merge pass raised
Outcome(r, m, merged) ==
    [res |-> IF ~r.res THEN "False" ELSE IF m.fault THEN "ValueError" ELSE "True",
     freerects |-> m.fr,
     items |-> r.items,
     item |-> r.item,
     chosen |-> r.chosen,
     split |-> r.split,
     premerge |-> r.freerects,
     merged |-> merged]

\* if res: if self.rMerge: self.rectangle_merge()
MergeAfter(r, merge) ==
    Outcome(r, IF r.res /\ merge THEN rectangle_merge(r.freerects) ELSE MergeOk(r.freerects),
            r.res /\ merge)

\* the merge pass run whatever the placement returned
MergeAlways(r, merge) ==
    Outcome(r, IF merge THEN rectangle_merge(r.freerects) ELSE MergeOk(r.freerects),
            merge)

\* insert running the merge pass whatever the placement returned
insert_MergeAlways(fr, its, rot, merge, policy, item, heuristic, passed) ==
    MergeAlways(Dispatch(fr, its, rot, policy, item, heuristic, passed), merge)

\* insert(item, heuristic, split_heuristic=passed): dispatch, then one merge
\* pass when the placement succeeded and merging is enabled
insert(fr, its, rot, merge, policy, item, heuristic, passed) ==
    MergeAfter(Dispatch(fr, its, rot, policy, item, heuristic, passed), merge)

----------------------------------------------------------------------------
\* bin_stats

\* sum(list of numbers)
RECURSIVE sum(_)
sum(ns) == IF ns = <<>> THEN 0 ELSE ns[1] + sum(Tail(ns))

\* no dictionary: bin_stats was not the operation just performed
NoStats == [res |-> "none", width |-> 0, height |-> 0, area |-> 0,
            efficiency |-> <<0, 1>>, items |-> <<>>]

\* the division by self.x*self.y raised: no dictionary is returned
StatsFault == [NoStats EXCEPT !.res = "ZeroDivisionError"]

\* the dictionary bin_stats builds; efficiency 1 - free/(x*y) is kept as the
\* fraction <<x*y - free, x*y>>
StatsOf(bx, by, its, free) ==
    IF bx * by = 0 THEN StatsFault
    ELSE [res |-> "ok", width |-> bx, height |-> by, area |-> bx * by,
          efficiency |-> <<bx * by - free, bx * by>>, items |-> its]

bin_stats(bx, by, fr, its) ==
    StatsOf(bx, by, its, sum([i \in 1..Len(fr) |-> fr[i].width * fr[i].height]))

\* the class objects self.algorithm can hold; a class equals no family name
GuillotineClass == "class Guillotine"
SheetClass == "class Sheet"

\* no BinManager has been constructed
NoManager ==
    [op |-> "none", ret |-> TRUE, bin_width |-> 0, bin_height |-> 0,
     items |-> <<>>, bins |-> <<>>, algorithm |-> GuillotineClass,
     heuristic |-> "next_fit", log |-> <<>>]

----------------------------------------------------------------------------
\* The state machine

NoCall == [heuristic |-> "none", passed |-> "default",
           arg |-> Item(0, 0), item |-> Item(0, 0),
           res |-> "none", chosen |-> None, split |-> TRUE,
           premerge |-> <<>>, merged |-> FALSE]

\* Guillotine.__init__ without the test for a zero dimension
Constructed_NoZeroTest ==
    /\ rotation \in BOOLEAN
    /\ rMerge \in BOOLEAN
    /\ split_heuristic \in SplitPolicies
    /\ freerects = <<FreeRectangle(x, y, 0, 0)>>
    /\ items = <<>>
    /\ call = NoCall
    /\ stats = NoStats

\* Guillotine.__init__(x, y, rotation, rectangle_merge, split_heuristic), given
\* the bin dimensions x and y
Constructed ==
    /\ rotation \in BOOLEAN
    /\ rMerge \in BOOLEAN
    /\ split_heuristic \in SplitPolicies
    /\ freerects = IF x = 0 \/ y = 0 THEN <<>> ELSE <<FreeRectangle(x, y, 0, 0)>>
    /\ items = <<>>
    /\ call = NoCall
    /\ stats = NoStats

\* a bin of BinW by BinH, or one with a zero dimension
Init ==
    /\ x \in {0, BinW}
    /\ y \in {0, BinH}
    /\ Constructed
    /\ manager = NoManager

\* the default value of insert's split_heuristic argument
DefaultPassed == "default"

\* one call g.insert(Item(w, h), heuristic, passed)
InsertCall(w, h, heuristic, passed) ==
    /\ \E out \in {insert(freerects, items, rotation, rMerge, split_heuristic,
                          Item(w, h), heuristic, passed)} :
           /\ freerects' = out.freerects
           /\ items' = out.items
           /\ call' = [heuristic |-> heuristic, passed |-> passed,
                       arg |-> Item(w, h), item |-> out.item,
                       res |-> out.res, chosen |-> out.chosen, split |-> out.split,
                       premerge |-> out.premerge, merged |-> out.merged]
    /\ stats' = NoStats
    /\ UNCHANGED <<x, y, rotation, rMerge, split_heuristic, manager>>

\* one call g.insert(Item(w, h), heuristic); the model stops calling insert
\* once cap items are placed
Insert(w, h, heuristic, cap) ==
    /\ Len(items) < cap
    /\ InsertCall(w, h, heuristic, DefaultPassed)

\* insert called with an item of positive width and height
InsertItem ==
    \E w \in 1..MaxDim, h \in 1..MaxDim, heuristic \in HeuristicNames :
        Insert(w, h, heuristic, MaxItems)

\* insert called with any item, its width or height possibly zero or negative
InsertAnyItem ==
    \E w \in (-MaxNegative)..MaxDim, h \in (-MaxNegative)..MaxDim, heuristic \in HeuristicNames :
        Insert(w, h, heuristic, MaxItemsAny)

Next == InsertItem

Spec == Init /\ [][Next]_vars

NextAny == InsertAnyItem

SpecAny == Init /\ [][NextAny]_vars

\* Bins with a zero dimension only.
InitDegenerate ==
    /\ x \in {0, BinW}
    /\ y \in {0, BinH}
    /\ ~(x > 0 /\ y > 0)
    /\ Constructed
    /\ manager = NoManager

SpecDegenerate == InitDegenerate /\ [][NextAny]_vars

\* A larger bin with merging and rotation enabled, filled with a few kinds of
\* item: deep enough for a merge pass to meet a rectangle it already merged.
InitDeep ==
    /\ x = DeepBinW
    /\ y = DeepBinH
    /\ Constructed
    /\ manager = NoManager
    /\ rotation /\ rMerge
    /\ split_heuristic = "SplitMaximizeArea"

DeepInputs ==
    {<<3, 1, "best_area_fit">>, <<1, 2, "best_area_fit">>,
     <<2, 2, "worst_area_fit">>, <<1, 3, "worst_area_fit">>, <<2, 1, "worst_area_fit">>}

InsertDeep ==
    \E inp \in DeepInputs : Insert(inp[1], inp[2], inp[3], MaxItemsDeep)

NextDeep == InsertDeep

SpecDeep == InitDeep /\ [][NextDeep]_vars

\* A fresh engine of any size up to BinW by BinH, its one free rectangle the
\* whole bin, and its first call of insert, made with a split_heuristic
\* argument.
InitPolicy ==
    /\ x \in 1..BinW
    /\ y \in 1..BinH
    /\ Constructed
    /\ manager = NoManager

InsertPassing ==
    \E w \in 1..MaxDim, h \in 1..MaxDim, heuristic \in HeuristicNames, passed \in SplitPolicies :
        /\ call = NoCall
        /\ InsertCall(w, h, heuristic, passed)

NextPolicy == InsertPassing

SpecPolicy == InitPolicy /\ [][NextPolicy]_vars

\* one call g.bin_stats()
BinStats ==
    /\ stats' = bin_stats(x, y, freerects, items)
    /\ UNCHANGED <<x, y, rotation, rMerge, split_heuristic, freerects, items, call,
                   manager>>

\* insert and bin_stats called in any order, on any bin of Init
NextStats == InsertItem \/ BinStats

SpecStats == Init /\ [][NextStats]_vars

----------------------------------------------------------------------------
\* BinManager

h_choices == {"next_fit", "first_fit", "best_width_fit", "best_height_fit",
              "best_area_fit", "worst_width_fit"}

\* item.x and item.y: the dimensions of the item as the manager reads them
ItemX(item) == item.width
ItemY(item) == item.height

\* an item handed to add_items; id tells the objects apart
ManagedItem(w, h, id) ==
    [width |-> w, height |-> h, CornerPoint |-> Unset, rotated |-> FALSE, id |-> id]

\* BinManager.__init__(bin_width, bin_height); op is the operation performed
\* last, ret what it returned, log what execute did with each item
BinManagerInit(bin_width, bin_height) ==
    [op |-> "__init__", ret |-> TRUE, bin_width |-> bin_width, bin_height |-> bin_height,
     items |-> <<>>, bins |-> <<>>, algorithm |-> GuillotineClass,
     heuristic |-> "next_fit", log |-> <<>>]

\* list.sort(key=lambda el: el.x*el.y, reverse=True): a stable sort, here by
\* insertion of each element after those whose key is not smaller
RECURSIVE SortInsert(_, _)
SortInsert(sorted, el) ==
    IF sorted = <<>> THEN <<el>>
    ELSE IF ItemX(sorted[1]) * ItemY(sorted[1]) >= ItemX(el) * ItemY(el)
         THEN <<sorted[1]>> \o SortInsert(Tail(sorted), el)
         ELSE <<el>> \o sorted

RECURSIVE SortLoop(_, _, _)
SortLoop(list, i, sorted) ==
    IF i > Len(list) THEN sorted
    ELSE SortLoop(list, i + 1, SortInsert(sorted, list[i]))

\* add_items(*new)
add_items(m, new) ==
    [m EXCEPT !.items = SortLoop(m.items \o new, 1, <<>>), !.op = "add_items", !.ret = TRUE]

\* set_algorthim(family, heuristic)
SetHeuristic(m, heuristic) ==
    IF heuristic \in h_choices
    THEN [m EXCEPT !.heuristic = heuristic, !.ret = TRUE]
    ELSE [m EXCEPT !.ret = FALSE]

set_algorthim(m, family, heuristic) ==
    CASE family = "shelf" ->
            SetHeuristic([m EXCEPT !.algorithm = SheetClass, !.op = "set_algorthim"], heuristic)
      [] family = "guillotine" ->
            SetHeuristic([m EXCEPT !.algorithm = GuillotineClass, !.op = "set_algorthim"], heuristic)
      [] OTHER -> [m EXCEPT !.op = "set_algorthim", !.ret = FALSE]

\* self.algorithm(self.bin_width, self.bin_height): a Guillotine with its
\* default rotation, merge and split policy
GuillotineNew(bin_width, bin_height) ==
    [freerects |-> IF bin_width = 0 \/ bin_height = 0 THEN <<>>
                   ELSE <<FreeRectangle(bin_width, bin_height, 0, 0)>>,
     items |-> <<>>]

\* binn.insert(item, self.heuristic) on an engine the manager built
EngineInsert(binn, item, heuristic) ==
    insert(binn.freerects, binn.items, TRUE, FALSE, "default", item, heuristic,
           DefaultPassed)

\* if not best_rect: ... elif best_in_bin.width < best_rect.width: ...
Better(best_rect, best_in_bin) ==
    IF best_rect = None THEN Some(best_in_bin)
    ELSE IF best_in_bin.width < best_rect[1].width THEN Some(best_in_bin)
    ELSE best_rect

\* if fitted_rects: best_in_bin = reduce(compare, fitted_rects) ...
BestInBin(best_rect, fitted_rects) ==
    IF fitted_rects # <<>>
    THEN Better(best_rect, Reduce(fitted_rects, "gt", "area", 2, fitted_rects[1]))
    ELSE best_rect

\* the loop of _bin_best_fit over self.bins. Its guillotine branch is entered
\* when self.algorithm == 'guillotine'; the shelf branch, entered when
\* self.algorithm == 'shelf', reads the shelves of a Sheet engine
RECURSIVE BestLoop(_, _, _, _, _)
BestLoop(bins, item, algorithm, i, best_rect) ==
    IF i > Len(bins) THEN best_rect
    ELSE BestLoop(bins, item, algorithm, i + 1,
                  IF algorithm = "guillotine"
                  THEN BestInBin(best_rect,
                                 SelectSeq(bins[i].freerects,
                                           LAMBDA rect : /\ rect.width >= ItemX(item)
                                                         /\ rect.height >= ItemY(item)))
                  ELSE best_rect)

\* the state of the manager after bins[i].insert(items[k], heuristic) gave out
Inserted(m, k, i, opened, before, out) ==
    [m EXCEPT !.bins[i] = [freerects |-> out.freerects, items |-> out.items],
              !.items[k] = out.item,
              !.log = Append(@, [item |-> m.items[k], bins |-> before,
                                 opened |-> opened, bin |-> i, res |-> out.res])]

InsertInto(m, k, i, opened, before) ==
    Inserted(m, k, i, opened, before, EngineInsert(m.bins[i], m.items[k], m.heuristic))

\* the end of _bin_best_fit: self.bins[i].insert with i the index the loop
\* ended on, or a new bin appended and the item inserted in it
BestFitCommit(m, k, best_rect) ==
    IF best_rect # None
    THEN InsertInto(m, k, Len(m.bins), FALSE, m.bins)
    ELSE InsertInto([m EXCEPT !.bins = Append(@, GuillotineNew(m.bin_width, m.bin_height))],
                    k, Len(m.bins) + 1, TRUE, m.bins)

\* _bin_best_fit(item) for the item at position k of self.items
_bin_best_fit(m, k) ==
    BestFitCommit(m, k, BestLoop(m.bins, m.items[k], m.algorithm, 1, None))

\* for item in self.items: self.bin_sel_algo(item)
RECURSIVE ExecuteLoop(_, _)
ExecuteLoop(m, k) ==
    IF k > Len(m.items) THEN m
    ELSE ExecuteLoop(_bin_best_fit(m, k), k + 1)

\* execute()
execute(m) ==
    ExecuteLoop([m EXCEPT !.bins = <<GuillotineNew(m.bin_width, m.bin_height)>>,
                          !.log = <<>>, !.op = "execute", !.ret = TRUE], 1)

\* A BinManager for bins of any size up to BinW by BinH; the engine variables
\* show the engine it builds for each bin.
InitManager ==
    /\ x \in 1..BinW
    /\ y \in 1..BinH
    /\ Constructed
    /\ rotation /\ ~rMerge /\ split_heuristic = "default"
    /\ manager = BinManagerInit(x, y)

EngineUnchanged ==
    UNCHANGED <<x, y, rotation, rMerge, split_heuristic, freerects, items, call, stats>>

\* add_items called with one item or with two
AddItems ==
    /\ \E w \in 1..MaxDim, h \in 1..MaxDim :
          \/ /\ Len(manager.items) < MaxManagerItems
             /\ manager' = add_items(manager, <<ManagedItem(w, h, Len(manager.items) + 1)>>)
          \/ /\ Len(manager.items) + 1 < MaxManagerItems
             /\ manager' = add_items(manager, <<ManagedItem(w, h, Len(manager.items) + 1),
                                                ManagedItem(h, w, Len(manager.items) + 2)>>)
    /\ EngineUnchanged

SetAlgorithm ==
    /\ \E family \in {"guillotine", "shelf", "other"},
          heuristic \in h_choices \cup {"worst_area_fit"} :
          manager' = set_algorthim(manager, family, heuristic)
    /\ EngineUnchanged

\* execute() with the guillotine family selected
Execute ==
    /\ manager.algorithm = GuillotineClass
    /\ manager' = execute(manager)
    /\ EngineUnchanged

NextManager == AddItems \/ SetAlgorithm \/ Execute

SpecManager == InitManager /\ [][NextManager]_vars

----------------------------------------------------------------------------
\* Geometry used to state the properties

\* the rectangle a placed item occupies
ItemRect(it) == FreeRectangle(it.width, it.height, it.CornerPoint[1], it.CornerPoint[2])

\* r lies inside the bin
InBin(r) == r.x >= 0 /\ r.y >= 0 /\ r.x + r.width <= x /\ r.y + r.height <= y

\* r covers the unit cell whose lower-left corner is c
Covers(r, c) ==
    /\ r.x <= c[1] /\ c[1] < r.x + r.width
    /\ r.y <= c[2] /\ c[2] < r.y + r.height

\* two rectangles share a unit cell
Overlap(a, b) ==
    /\ a.x < b.x + b.width /\ b.x < a.x + a.width
    /\ a.y < b.y + b.height /\ b.y < a.y + a.height

BinCells == (0..(x - 1)) \X (0..(y - 1))

\* how many rectangles, free or placed, cover cell c
CoverCount(c) ==
    Cardinality({i \in 1..Len(freerects) : Covers(freerects[i], c)})
    + Cardinality({i \in 1..Len(items) : Covers(ItemRect(items[i]), c)})

RECURSIVE SumAreas(_)
SumAreas(s) == IF s = <<>> THEN 0 ELSE area(s[1]) + SumAreas(Tail(s))

----------------------------------------------------------------------------
\* Properties

\* C1: exact partition. After any sequence of insert calls with items of
\* positive width and height, every unit cell of the bin is covered by
\* exactly one rectangle among the placed items and the free rectangles, and
\* no placed item or free rectangle extends outside the bin.
C1_ExactPartition ==
    /\ \A i \in 1..Len(freerects) : InBin(freerects[i])
    /\ \A i \in 1..Len(items) : InBin(ItemRect(items[i]))
    /\ \A c \in BinCells : CoverCount(c) = 1

\* C2: area conservation. The areas of the placed items plus the areas of
\* the free rectangles add up to bin_width * bin_height in every state.
C2_AreaConservation ==
    SumAreas(items) + SumAreas(freerects) = x * y

\* C3: failure leaves the engine unchanged. Whenever insert returns False
\* the free-rectangle list (contents and order) and the placed-item list are
\* what they were before the call, and no merge pass ran.
C3_FailureLeavesEngineUnchanged ==
    [][call'.res = "False" =>
          /\ freerects' = freerects
          /\ items' = items
          /\ call'.premerge = freerects
          /\ ~call'.merged]_vars

\* a failed call of a known heuristic on a bin that has space left and has
\* merging enabled
C3_Witness ==
    /\ call.res = "False"
    /\ call.heuristic \in Heuristics
    /\ rMerge
    /\ Len(items) > 0
    /\ freerects # <<>>

\* C4: failure leaves the item unchanged. If insert returns False the item's
\* width, height, rotated flag and position are what they were before the
\* call.
C4_FailureLeavesItemUnchanged ==
    call.res = "False" => call.item = call.arg

\* the candidate of _generic_algo for one orientation
Candidate(fr, item, h, rot) ==
    _rectangle_reduce(_fitted_rects(fr, item, rot), HeuristicOp(h), HeuristicField(h))

\* the call just made placed an item
Placed(c) == c.res \in {"True", "ValueError"}

\* C5: rotation tie-break. For the six best_*/worst_* heuristics with
\* rotation enabled the engine uses, of the unrotated and the rotated
\* candidate, the one with the smaller width; on a tie the unrotated one is
\* used, and the item's dimensions are swapped only when the rotated
\* candidate strictly wins.
C5_RotationTieBreak ==
    [][(rotation /\ call'.heuristic \in GenericHeuristics /\ Placed(call')) =>
          LET A == Candidate(freerects, call'.arg, call'.heuristic, FALSE)
              B == Candidate(freerects, call'.arg, call'.heuristic, TRUE)
              rotatedWins == B # None /\ (A = None \/ B[1].width < A[1].width)
          IN  /\ call'.chosen = IF rotatedWins THEN B ELSE A
              /\ call'.item.rotated = rotatedWins
              /\ call'.item.width = IF rotatedWins THEN call'.arg.height ELSE call'.arg.width
              /\ call'.item.height = IF rotatedWins THEN call'.arg.width ELSE call'.arg.height
      ]_vars

\* C6: rotation correctness. With rotation enabled and for every heuristic,
\* if an item (a,b) fits no free rectangle as (a,b) but fits one as (b,a),
\* insert returns True, the item is placed in a free rectangle that fits
\* (b,a), its stored width is b and its height a, and the split is computed
\* with the swapped dimensions.
C6_RotationCorrectness ==
    [][(/\ rotation
        /\ call'.heuristic \in Heuristics
        /\ _fitted_rects(freerects, call'.arg, FALSE) = <<>>
        /\ _fitted_rects(freerects, call'.arg, TRUE) # <<>>) =>
          LET a == call'.arg.width
              b == call'.arg.height
              I == call'.item
          IN  /\ call'.res = "True"
              /\ call'.chosen # None
              /\ Contains(freerects, call'.chosen[1])
              /\ call'.chosen[1].width >= b /\ call'.chosen[1].height >= a
              /\ I.width = b /\ I.height = a /\ I.rotated
              /\ I.CornerPoint = <<call'.chosen[1].x, call'.chosen[1].y>>
              /\ items' = Append(items, I)
              /\ call'.premerge = Remove(freerects, call'.chosen[1])
                     \o _split_along_axis(call'.chosen[1], [width |-> b, height |-> a],
                                          call'.split)
      ]_vars

\* a split piece is kept only when both its dimensions are positive
Keep(r) == IF r.width > 0 /\ r.height > 0 THEN <<r>> ELSE <<>>

\* the scenario of the specification: bin (8,4), item (3,2), first_fit,
\* default split
Scenario84 ==
    insert(<<FreeRectangle(8, 4, 0, 0)>>, <<>>, rotation, rMerge, "default",
           Item(3, 2), "first_fit", DefaultPassed)

\* C7: effect of a successful insertion. When insert places item I (oriented
\* width w, height h) in free rectangle F, I's corner is F's origin, I is
\* appended to the placed list, F is removed from the free list and the
\* pieces added are, for a horizontal split (the default), right
\* (F.width-w, h, F.x+w, F.y) and top (F.width, F.height-h, F.x, F.y+h), and
\* for a vertical split right (F.width-w, F.height, F.x+w, F.y) and top
\* (w, F.height-h, F.x, F.y+h), each only if both its dimensions are > 0.
\* Bin (8,4), item (3,2), first_fit, default split gives the free rectangles
\* (5,2,3,0) and (8,2,0,2).
C7_SplitEffect ==
    /\ [][Placed(call') =>
            LET F == call'.chosen[1]
                I == call'.item
                w == I.width
                h == I.height
                right == IF call'.split
                         THEN FreeRectangle(F.width - w, h, F.x + w, F.y)
                         ELSE FreeRectangle(F.width - w, F.height, F.x + w, F.y)
                top == IF call'.split
                       THEN FreeRectangle(F.width, F.height - h, F.x, F.y + h)
                       ELSE FreeRectangle(w, F.height - h, F.x, F.y + h)
            IN  /\ call'.chosen # None
                /\ Contains(freerects, F)
                /\ I.CornerPoint = <<F.x, F.y>>
                /\ items' = Append(items, I)
                /\ call'.premerge = Remove(freerects, F) \o Keep(right) \o Keep(top)
                /\ ~rMerge => freerects' = call'.premerge
                /\ split_heuristic = "default" => call'.split
         ]_vars
    /\ [](/\ Scenario84.res = "True"
          /\ Scenario84.item.CornerPoint = <<0, 0>>
          /\ Scenario84.freerects = <<FreeRectangle(5, 2, 3, 0), FreeRectangle(8, 2, 0, 2)>>)

\* a placement with a vertical split that left both a right and a top piece
C7_Witness ==
    /\ call.res = "True"
    /\ ~call.split
    /\ call.chosen[1].width > call.item.width
    /\ call.chosen[1].height > call.item.height
    /\ Len(call.premerge) >= 2

\* C8: exact fit produces no fragments. When the placed item's oriented
\* width and height equal those of the chosen free rectangle, the free list
\* after the insertion, before any merge, is the previous free list minus the
\* chosen rectangle, under every split policy; and no free rectangle with
\* width <= 0 or height <= 0 is ever in the free list.
C8_ExactFit ==
    /\ [][(/\ Placed(call')
           /\ call'.item.width = call'.chosen[1].width
           /\ call'.item.height = call'.chosen[1].height) =>
              call'.premerge = Remove(freerects, call'.chosen[1])
         ]_vars
    /\ [](\A i \in 1..Len(freerects) :
              freerects[i].width > 0 /\ freerects[i].height > 0)

\* an exact fit in one of several free rectangles
C8_Witness ==
    /\ call.res = "True"
    /\ call.item.width = call.chosen[1].width
    /\ call.item.height = call.chosen[1].height
    /\ Len(call.premerge) > 0

\* C9: degenerate bin. An engine built with bin width 0 or bin height 0
\* starts with an empty free list, and after any sequence of insert calls
\* with any items and heuristics every call has returned False and the free
\* list and the placed list are still empty.
C9_DegenerateBin ==
    (x = 0 \/ y = 0) =>
        /\ freerects = <<>>
        /\ items = <<>>
        /\ call.res \in {"none", "False"}

\* a zero-width item was offered to a bin of width 0 and refused
C9_Witness ==
    /\ x = 0 /\ y > 0
    /\ call.res = "False"
    /\ call.heuristic \in Heuristics
    /\ call.arg.width = 0 /\ call.arg.height > 0

\* C10: malformed items do not corrupt the free set. A call of insert with an
\* item whose width or height is zero or negative either fails leaving the
\* engine unchanged, or leaves a free list in which every free rectangle lies
\* inside the bin, has positive dimensions, and overlaps no other free
\* rectangle and no previously placed item.
C10_MalformedItemsKeepFreeSet ==
    [][(call'.arg.width <= 0 \/ call'.arg.height <= 0) =>
          \/ /\ call'.res = "False"
             /\ freerects' = freerects
             /\ items' = items
          \/ /\ \A i \in 1..Len(freerects') :
                    /\ InBin(freerects'[i])
                    /\ freerects'[i].width > 0 /\ freerects'[i].height > 0
                    /\ \A j \in 1..Len(freerects') :
                          i # j => ~Overlap(freerects'[i], freerects'[j])
                    /\ \A k \in 1..Len(items) :
                          ~Overlap(freerects'[i], ItemRect(items[k]))
      ]_vars

\* r is wide and high enough for an item of width w and height h
Fits(r, w, h) == r.width >= w /\ r.height >= h

\* the measure a best_*/worst_* heuristic name refers to
Measure(r, h) ==
    CASE h \in {"best_width_fit", "worst_width_fit"} -> r.width
      [] h \in {"best_height_fit", "worst_height_fit"} -> r.height
      [] h \in {"best_area_fit", "worst_area_fit"} -> r.width * r.height

\* C11: best/worst selection. With rotation disabled, a successful insert
\* with best_width_fit / best_height_fit / best_area_fit places the item in a
\* free rectangle whose width / height / area is the minimum over all free
\* rectangles that fit the item, one with worst_* in a free rectangle whose
\* width / height / area is the maximum, and insert fails only when no free
\* rectangle fits.
C11_BestWorstSelection ==
    [][(~rotation /\ call'.heuristic \in GenericHeuristics) =>
          LET w == call'.arg.width
              h == call'.arg.height
              fitting == {i \in 1..Len(freerects) : Fits(freerects[i], w, h)}
              best == call'.heuristic \in {"best_width_fit", "best_height_fit", "best_area_fit"}
          IN  /\ (call'.res = "False") <=> (fitting = {})
              /\ Placed(call') =>
                    /\ call'.chosen # None
                    /\ \E i \in fitting : freerects[i] = call'.chosen[1]
                    /\ \A i \in fitting :
                          IF best
                          THEN Measure(call'.chosen[1], call'.heuristic)
                                   <= Measure(freerects[i], call'.heuristic)
                          ELSE Measure(call'.chosen[1], call'.heuristic)
                                   >= Measure(freerects[i], call'.heuristic)
                    /\ call'.item.width = w /\ call'.item.height = h
                    /\ ~call'.item.rotated
      ]_vars

\* a best_width_fit placement, rotation disabled, that left aside a strictly
\* wider free rectangle which also fits the item
C11_Witness ==
    /\ ~rotation
    /\ call.res = "True"
    /\ call.heuristic = "best_width_fit"
    /\ call.item.width = call.chosen[1].width
    /\ call.item.height = call.chosen[1].height
    /\ \E i \in 1..Len(call.premerge) :
          /\ Fits(call.premerge[i], call.item.width, call.item.height)
          /\ call.premerge[i].width > call.chosen[1].width

\* C12: first_fit selection order. A successful first_fit insert places the
\* item in the earliest free rectangle, in the order of the free list, that
\* fits the orientation used; the item is placed unrotated whenever some free
\* rectangle fits it unrotated, and rotated only when rotation is enabled, no
\* free rectangle fits it unrotated and one fits it rotated.
C12_FirstFitOrder ==
    [][(call'.heuristic = "first_fit") =>
          LET w == call'.arg.width
              h == call'.arg.height
              plain == {i \in 1..Len(freerects) : Fits(freerects[i], w, h)}
              turned == {i \in 1..Len(freerects) : Fits(freerects[i], h, w)}
              useTurned == plain = {} /\ rotation /\ turned # {}
              used == IF useTurned THEN turned ELSE plain
              k == CHOOSE i \in used : \A j \in used : i <= j
          IN  /\ (call'.res = "False") <=> (used = {})
              /\ Placed(call') =>
                    /\ call'.chosen = Some(freerects[k])
                    /\ call'.item.rotated = useTurned
                    /\ call'.item.width = (IF useTurned THEN h ELSE w)
                    /\ call'.item.height = (IF useTurned THEN w ELSE h)
                    /\ Len(call'.premerge) >= Len(freerects) - 1
                    /\ \A j \in 1..(k - 1) : call'.premerge[j] = freerects[j]
                    /\ \A j \in (k + 1)..Len(freerects) : call'.premerge[j - 1] = freerects[j]
      ]_vars

\* a first_fit call that rotated the item, filled the earlier of two free
\* rectangles that fit it rotated, and left the later one in the free list
C12_Witness ==
    /\ call.res = "True"
    /\ call.heuristic = "first_fit"
    /\ call.item.rotated
    /\ call.item.width = call.chosen[1].width
    /\ call.item.height = call.chosen[1].height
    /\ \E i \in 1..Len(call.premerge) :
          Fits(call.premerge[i], call.item.width, call.item.height)

\* b is the right-hand neighbour of a: same y and height, b starts where a ends
RightNeighbour(a, b) == a.y = b.y /\ a.height = b.height /\ b.x = a.x + a.width

\* b is the neighbour above a: same x and width, b starts where a ends
UpperNeighbour(a, b) == a.x = b.x /\ a.width = b.width /\ b.y = a.y + a.height

\* b is the right-hand or the upper neighbour of a
Neighbour(a, b) == RightNeighbour(a, b) \/ UpperNeighbour(a, b)

\* the rectangle covering a and its neighbour b
UnionRect(a, b) ==
    IF RightNeighbour(a, b)
    THEN FreeRectangle(a.width + b.width, a.height, a.x, a.y)
    ELSE FreeRectangle(a.width, a.height + b.height, a.x, a.y)

\* the free list is made of two neighbours, in either order
TwoNeighbours(fr) ==
    Len(fr) = 2 /\ (Neighbour(fr[1], fr[2]) \/ Neighbour(fr[2], fr[1]))

\* the union of the two rectangles of such a list
UnionOfTwo(fr) ==
    IF Neighbour(fr[1], fr[2]) THEN UnionRect(fr[1], fr[2]) ELSE UnionRect(fr[2], fr[1])

\* the first insertion of the scenario of the specification: bin (4,4), merge
\* enabled, an item (2,2) placed by first_fit
Scenario44First(policy) ==
    insert(<<FreeRectangle(4, 4, 0, 0)>>, <<>>, rotation, TRUE, policy,
           Item(2, 2), "first_fit", DefaultPassed)

\* the second insertion: another item (2,2), which first_fit places beside
\* the first
Scenario44(policy) ==
    insert(Scenario44First(policy).freerects, Scenario44First(policy).items,
           rotation, TRUE, policy, Item(2, 2), "first_fit", DefaultPassed)

\* C13: merge scenario. With merge enabled, if after a successful insertion's
\* split the free list consists of exactly two free rectangles that share y
\* and height and are horizontally contiguous, or share x and width and are
\* vertically contiguous, then after the merge pass of that insertion the
\* free list is the one rectangle equal to their union, whatever the order of
\* the two in the list. Bin (4,4) with two (2,2) items placed side by side
\* ends with one free rectangle.
C13_MergeScenario ==
    /\ [][(rMerge /\ Placed(call') /\ TwoNeighbours(call'.premerge)) =>
            /\ call'.res = "True"
            /\ freerects' = <<UnionOfTwo(call'.premerge)>>
            /\ rectangle_merge(<<call'.premerge[2], call'.premerge[1]>>)
                   = MergeOk(<<UnionOfTwo(call'.premerge)>>)
         ]_vars
    /\ \A policy \in SplitPolicies :
          /\ Scenario44(policy).res = "True"
          /\ Scenario44(policy).items[1].CornerPoint = <<0, 0>>
          /\ Scenario44(policy).items[2].CornerPoint = <<2, 0>>
          /\ Scenario44(policy).freerects = <<FreeRectangle(4, 2, 0, 2)>>

\* an insertion whose split left two neighbouring free rectangles, which the
\* merge pass replaced by one
C13_Witness ==
    /\ rMerge
    /\ call.res = "True"
    /\ TwoNeighbours(call.premerge)
    /\ RightNeighbour(call.premerge[1], call.premerge[2])
    /\ Len(freerects) = 1

\* the unit cells of the bin covered by some rectangle of the list fr
FreeCells(fr) == {c \in BinCells : \E i \in 1..Len(fr) : Covers(fr[i], c)}

\* C14: merge only joins true neighbours. Each pair of free rectangles a
\* merge pass replaces by one is a pair of neighbours (same x and width, the
\* second at y = first.y + first.height, or same y and height, the second at
\* x = first.x + first.width), so the merged rectangle covers exactly the
\* union of the two: the cells covered by free rectangles are the same
\* before and after the merge pass, and so is their total area.
C14_MergeJoinsNeighbours ==
    [][(Placed(call') /\ call'.merged /\ call'.res = "True") =>
          /\ FreeCells(freerects') = FreeCells(call'.premerge)
          /\ SumAreas(freerects') = SumAreas(call'.premerge)
      ]_vars

\* C15: a merge pass never faults. With merge enabled every removal a merge
\* pass performs targets a rectangle that is in the free list at that moment
\* (a rectangle merged vertically is not merged again horizontally in the
\* same pass), so every insert that places an item returns True.
C15_MergeNeverFaults ==
    [][(rMerge /\ call'.chosen # None) => call'.res = "True"]_vars

\* the axis each split policy selects for item I in free rectangle F: TRUE
\* is a horizontal split
Horizontal(policy, F, I) ==
    LET leftover_width == F.width - I.width
        leftover_height == F.height - I.height
        minimize == I.width * leftover_height > leftover_width * I.height
    IN  CASE policy = "default" -> TRUE
          [] policy = "SplitShorterLeftoverAxis" -> leftover_width <= leftover_height
          [] policy = "SplitLongerLeftoverAxis" -> leftover_width > leftover_height
          [] policy = "SplitMinimizeArea" -> minimize
          [] policy = "SplitMaximizeArea" -> ~minimize
          [] policy = "SplitShorterAxis" -> F.width <= F.height
          [] policy = "SplitLongerAxis" -> F.width > F.height

\* the pieces of F left by item I for a split along the given axis
Pieces(F, I, horizontal) ==
    IF horizontal
    THEN Keep(FreeRectangle(F.width - I.width, I.height, F.x + I.width, F.y))
         \o Keep(FreeRectangle(F.width, F.height - I.height, F.x, F.y + I.height))
    ELSE Keep(FreeRectangle(F.width - I.width, F.height, F.x + I.width, F.y))
         \o Keep(FreeRectangle(I.width, F.height - I.height, F.x, F.y + I.height))

\* C16: split-axis policy. For every free rectangle F and fitting item I,
\* with leftover_width = F.width - I.width and leftover_height = F.height -
\* I.height, the split is horizontal exactly when: default -> always;
\* SplitShorterLeftoverAxis -> leftover_width <= leftover_height;
\* SplitLongerLeftoverAxis -> leftover_width > leftover_height;
\* SplitMinimizeArea -> I.width*leftover_height > leftover_width*I.height;
\* SplitMaximizeArea -> the negation of that; SplitShorterAxis -> F.width <=
\* F.height; SplitLongerAxis -> F.width > F.height. The policy used is the
\* one fixed at construction, not the one passed to insert.
C16_SplitAxisPolicy ==
    [][Placed(call') =>
          /\ call'.chosen # None
          /\ call'.split = Horizontal(split_heuristic, call'.chosen[1], call'.item)
          /\ call'.premerge = Remove(freerects, call'.chosen[1])
                 \o Pieces(call'.chosen[1], call'.item,
                           Horizontal(split_heuristic, call'.chosen[1], call'.item))
      ]_vars

\* a best_*/worst_* placement leaving a right and a top piece, made with a
\* split_heuristic argument that selects the other axis than the policy of
\* the engine
C16_Witness ==
    /\ call.res = "True"
    /\ call.heuristic \in GenericHeuristics
    /\ call.passed # split_heuristic
    /\ call.chosen[1].width > call.item.width
    /\ call.chosen[1].height > call.item.height
    /\ Horizontal(call.passed, call.chosen[1], call.item)
           # Horizontal(split_heuristic, call.chosen[1], call.item)
    /\ Len(call.premerge) = 2

\* C17: free-set size bound. A successful insert removes exactly one free
\* rectangle and adds at most two, its merge pass can only reduce the count
\* further, and a failed insert changes nothing; so in every reachable state
\* of a non-degenerate bin the number of free rectangles is at most the
\* number of placed items plus one.
C17_FreeSetSizeBound ==
    /\ [][/\ Placed(call') =>
                (/\ Len(call'.premerge) >= Len(freerects) - 1
                 /\ Len(call'.premerge) <= Len(freerects) + 1
                 /\ Len(freerects') <= Len(call'.premerge)
                 /\ Len(items') = Len(items) + 1)
          /\ call'.res = "False" =>
                (/\ Len(freerects') = Len(freerects)
                 /\ Len(items') = Len(items))
         ]_vars
    /\ []((x > 0 /\ y > 0) => Len(freerects) <= Len(items) + 1)

\* two placements that each added two pieces: three free rectangles beside
\* two placed items
C17_Witness ==
    /\ call.res = "True"
    /\ Len(items) = 2
    /\ Len(call.premerge) = 3
    /\ Len(freerects) = 3

\* C20: bin_stats is available in every state. For every engine that can be
\* constructed, one with bin width 0 or bin height 0 included, and in every
\* state reachable by insert calls, bin_stats() completes without a fault,
\* reports area = bin_width * bin_height and the placed list in insertion
\* order, and leaves the free list and the placed list unchanged.
C20_BinStatsAvailable ==
    [][(stats' # NoStats) =>
          /\ stats'.res = "ok"
          /\ stats'.width = x /\ stats'.height = y
          /\ stats'.area = x * y
          /\ stats'.items = items
          /\ freerects' = freerects
          /\ items' = items
      ]_vars

\* some engine of bins has a free rectangle wide and high enough for item
FitsSomeBin(bins, item) ==
    \E i \in 1..Len(bins) : \E j \in 1..Len(bins[i].freerects) :
        Fits(bins[i].freerects[j], item.width, item.height)

\* C18: the orchestrator opens a new bin only on rejection. With the
\* guillotine family selected, _bin_best_fit inserts the item into an
\* existing bin whenever some existing bin has a free rectangle that fits
\* it, and appends a new bin only when none has; so after execute() there is
\* more than one bin only if some item fitted no bin that existed when it was
\* processed.
C18_NewBinOnlyOnRejection ==
    (manager.op = "execute") =>
        /\ \A k \in 1..Len(manager.log) :
              /\ FitsSomeBin(manager.log[k].bins, manager.log[k].item)
                    => (~manager.log[k].opened /\ manager.log[k].bin <= Len(manager.log[k].bins))
              /\ manager.log[k].opened
                    => ~FitsSomeBin(manager.log[k].bins, manager.log[k].item)
        /\ Len(manager.bins) > 1 =>
              \E k \in 1..Len(manager.log) :
                  ~FitsSomeBin(manager.log[k].bins, manager.log[k].item)

\* the item fits an empty bin of the manager, as it is or turned
FitsEmptyBin(item) ==
    \/ item.width <= manager.bin_width /\ item.height <= manager.bin_height
    \/ item.height <= manager.bin_width /\ item.width <= manager.bin_height

\* the bins whose placed list holds the item of this id
BinsHolding(id) ==
    {i \in 1..Len(manager.bins) :
        \E j \in 1..Len(manager.bins[i].items) : manager.bins[i].items[j].id = id}

\* C19: the orchestrator places every placeable item. With the guillotine
\* family, for the default heuristic and for every heuristic name
\* set_algorthim accepts, after execute() every added item that fits an empty
\* bin of the configured size is in the placed list of exactly one bin, and
\* no bin is left holding no item.
C19_EveryPlaceableItemPlaced ==
    (manager.op = "execute" /\ manager.items # <<>>) =>
        /\ \A k \in 1..Len(manager.items) :
              FitsEmptyBin(manager.items[k]) =>
                  Cardinality(BinsHolding(manager.items[k].id)) = 1
        /\ \A i \in 1..Len(manager.bins) : manager.bins[i].items # <<>>

====
